---- MODULE Spec2Model ----
(***************************************************************************)
(* A model of the two custom elements of the repository:                   *)
(*   - StreamElement (<turbo-stream>), src/src/elements/stream_element.ts  *)
(*   - FrameElement  (<turbo-frame>),  src/src/elements/frame_element.ts   *)
(* One element instance of each kind is modelled.  The host is a           *)
(* single-threaded event loop: an action is one synchronous run of code    *)
(* between two suspension points, except before-render dispatch, which is  *)
(* split into steps so that what listeners do during it is visible.        *)
(***************************************************************************)
EXTENDS Integers, Sequences, FiniteSets, TLC

\* ------------------------------------------------------------------ bounds
\* Calls of render() entered over a run of the model, attachments included.
MaxCalls == 3
\* Calls of controller.visit over a run of the model.
MaxVisits == 2
\* Calls of the frame on its controller's connect, disconnect and
\* formSubmissionIntercepted over a run of the model.
MaxNotifications == 2

\* --------------------------------------------------------- attribute values
\* getAttribute() returns null for an attribute that is not there.
Null == "<null>"

\* StreamActions: the registry of action handlers, keyed by action name.
StreamActions == {"append", "remove"}

\* Values the action attribute takes in the model.
ActionValues == {Null, "", "append", "remove", "bogus"}

\* Values the target attribute takes: none, empty, the id of an element of
\* the owning document, an id no element of the document has.
TargetValues == {Null, "", "dom_id", "no_such_id"}

VARIABLES
  \* ---- StreamElement
  action,          \* the action attribute
  target,          \* the target attribute
  templateFirst,   \* firstElementChild instanceof HTMLTemplateElement
  attached,        \* the element is in a document
  renderPromise,   \* the renderPromise field: 0 (undefined) or a run
  runs,            \* executions of the async arrow function of render()
  calls,           \* entries into render(): by connectedCallback or direct
  stack,           \* dispatchEvent calls in progress, innermost last
  frameQueue,      \* runs waiting in nextAnimationFrame(), oldest first
  dispatched,      \* before-render events dispatched
  handled,         \* handlers invoked, in order
  logged,          \* console.error calls
  \* ---- FrameElement
  src,             \* the src attribute
  disabledAttr,    \* the disabled attribute
  autoscrollAttr,  \* the autoscroll attribute
  ownerDocument,   \* the document that owns the frame
  preview,         \* per document: root carries data-turbo-preview
  hasRoot,         \* per document: the document has a root element
  visits,          \* controller.visit calls, in order
  loaded,          \* the own property "loaded": 0 (not defined) or a visit
  connected,       \* the frame is attached to a document
  notifications,   \* calls the frame made on its controller, in order
  accepted,        \* observed src changes, non-empty, in the live document
                   \* while its root carried no preview marker
  lastOp           \* the operation the last step performed on the frame

streamVars == <<action, target, templateFirst, attached, renderPromise, runs,
                calls, stack, frameQueue, dispatched, handled, logged>>
frameVars == <<src, disabledAttr, autoscrollAttr, ownerDocument, preview,
               hasRoot, visits, loaded, connected, notifications, accepted,
               lastOp>>
vars == <<streamVars, frameVars>>

\* ================================================================ StreamElement

\* The action attribute as it was when the render waiting for the next
\* frame dispatched its event.
ActionAtDispatch ==
  IF frameQueue # <<>> THEN runs[Head(frameQueue)].actionAtDispatch ELSE action

\* get action(): getAttribute("action")
Action == action

\* get target(): getAttribute("target")
Target == target

\* A string is truthy unless it is null or empty.
Truthy(s) == s # Null /\ s # ""

Raise(message) == [kind |-> "raise", message |-> message]

\* get performAction(): the handler to call, or the error raised.
performAction(a) ==
  IF Truthy(a)
    THEN IF a \in StreamActions
           THEN [kind |-> "handler", name |-> a]
           ELSE Raise("unknown action")
    ELSE Raise("action attribute is missing")

\* get targetElement(): an element, nothing (no element has the id), or the
\* error raised.
targetElement(t) ==
  IF Truthy(t)
    THEN IF t = "dom_id" THEN [kind |-> "element"] ELSE [kind |-> "none"]
    ELSE Raise("target attribute is missing")

\* get templateElement(): the first child, or the error raised.
templateElement(isTemplate) ==
  IF isTemplate
    THEN [kind |-> "element"]
    ELSE Raise("first child element must be a <template> element")

\* A handler of the registry run on the element: "" when it returns, the
\* message when it throws.  append is
\*   this.targetElement?.append(this.templateContent)
\* and remove is this.targetElement?.remove().
RunHandler(name, t, isTemplate) ==
  LET te == targetElement(t) IN
  IF te.kind = "raise" THEN te.message
  ELSE IF te.kind = "none" THEN ""
  ELSE IF name = "append" /\ templateElement(isTemplate).kind = "raise"
         THEN templateElement(isTemplate).message
  ELSE ""

Settled(r) == runs[r].st \in {"resolved", "rejected"}

\* ---- render()
\* Entering render() for call record c.  When renderPromise is set the call
\* returns it.  Otherwise the arrow function starts and runs up to its first
\* await: it dispatches the before-render event, whose listeners run before
\* anything is assigned to renderPromise.
EnterRender(c) ==
  IF renderPromise # 0
    THEN /\ calls' = Append(calls, [c EXCEPT !.run = renderPromise, !.st = "waiting"])
         /\ UNCHANGED <<runs, stack, dispatched>>
    ELSE /\ runs' = Append(runs, [st |-> "dispatching", canceled |-> FALSE,
                                  error |-> "", handler |-> "",
                                  actionRead |-> "<unread>",
                                  actionAtDispatch |-> action,
                                  inDocument |-> FALSE, callsBefore |-> 0])
         /\ calls' = Append(calls, c)
         /\ stack' = Append(stack, [run |-> Len(runs) + 1, call |-> Len(calls) + 1])
         /\ dispatched' = dispatched + 1

NewCall(kind) == [kind |-> kind, run |-> 0, st |-> "calling", logs |-> 0,
                  removal |-> "none", outcome |-> "", inDocument |-> FALSE]

\* A dispatchEvent that ignores preventDefault().
dispatchEventNotCancelable(canceled) == TRUE

\* dispatchEvent returns false when a listener called preventDefault().
dispatchEvent(canceled) == ~canceled

\* this.renderPromise ??= <promise>: the left side was read, and found
\* undefined, before the right side ran, so the promise is assigned whatever
\* the field holds by now.
AssignRenderPromise(current, promise) == promise

\* The browser attaches the element to a document: connectedCallback runs
\* up to "await this.render()".
Attach ==
  /\ stack = <<>>
  /\ ~attached
  /\ Len(calls) < MaxCalls
  /\ attached' = TRUE
  /\ EnterRender(NewCall("attach"))
  /\ UNCHANGED frameVars
  /\ UNCHANGED <<action, target, templateFirst, renderPromise, frameQueue,
                 handled, logged>>

\* A detachment that also drops the renders waiting for their frame.
DetachStopsPipeline ==
  /\ stack = <<>>
  /\ attached
  /\ attached' = FALSE
  /\ frameQueue' = <<>>
  /\ UNCHANGED frameVars
  /\ UNCHANGED <<action, target, templateFirst, renderPromise, runs, calls,
                 stack, dispatched, handled, logged>>

\* Another party takes the element out of its document.
Detach ==
  /\ stack = <<>>
  /\ attached
  /\ attached' = FALSE
  /\ UNCHANGED frameVars
  /\ UNCHANGED <<action, target, templateFirst, renderPromise, runs, calls,
                 stack, frameQueue, dispatched, handled, logged>>

\* A script calls render() on the element, outside any dispatch.
CallRender ==
  /\ stack = <<>>
  /\ Len(calls) < MaxCalls
  /\ EnterRender(NewCall("render"))
  /\ UNCHANGED frameVars
  /\ UNCHANGED <<action, target, templateFirst, attached, renderPromise,
                 frameQueue, handled, logged>>

\* A listener of the before-render event being dispatched calls render().
ListenerRender ==
  /\ stack # <<>>
  /\ Len(calls) < MaxCalls
  /\ EnterRender(NewCall("render"))
  /\ UNCHANGED frameVars
  /\ UNCHANGED <<action, target, templateFirst, attached, renderPromise,
                 frameQueue, handled, logged>>

\* A listener of the before-render event being dispatched attaches the
\* element, or moves it to another place of its document: connectedCallback
\* runs inside the dispatch, up to "await this.render()".
ListenerAttach ==
  /\ stack # <<>>
  /\ Len(calls) < MaxCalls
  /\ attached' = TRUE
  /\ EnterRender(NewCall("attach"))
  /\ UNCHANGED frameVars
  /\ UNCHANGED <<action, target, templateFirst, renderPromise, frameQueue,
                 handled, logged>>

\* A script gives the action attribute another value, or removes it: a
\* listener while the event is dispatched, or anyone at any other time.
SetAction(value) ==
  /\ value # action
  /\ action' = value
  /\ UNCHANGED frameVars
  /\ UNCHANGED <<target, templateFirst, attached, renderPromise, runs, calls,
                 stack, frameQueue, dispatched, handled, logged>>

\* A listener of the before-render event being dispatched cancels it.
ListenerCancel ==
  /\ stack # <<>>
  /\ LET r == stack[Len(stack)].run IN
       /\ ~runs[r].canceled
       /\ runs' = [runs EXCEPT ![r].canceled = TRUE]
  /\ UNCHANGED frameVars
  /\ UNCHANGED <<action, target, templateFirst, attached, renderPromise, calls,
                 stack, frameQueue, dispatched, handled, logged>>

\* The innermost dispatchEvent returns.  A canceled run ends at once and its
\* promise is resolved; any other run suspends in nextAnimationFrame().  Then
\* the promise is assigned to renderPromise and render() returns it.
DispatchReturn ==
  /\ stack # <<>>
  /\ LET top == stack[Len(stack)]
         r == top.run
         c == top.call
     IN
       /\ stack' = SubSeq(stack, 1, Len(stack) - 1)
       /\ IF dispatchEvent(runs[r].canceled)
            THEN /\ runs' = [runs EXCEPT ![r].st = "yielding"]
                 /\ frameQueue' = Append(frameQueue, r)
            ELSE /\ runs' = [runs EXCEPT ![r].st = "resolved"]
                 /\ UNCHANGED frameQueue
       /\ renderPromise' = AssignRenderPromise(renderPromise, r)
       /\ calls' = [calls EXCEPT ![c].run = r, ![c].st = "waiting"]
  /\ UNCHANGED frameVars
  /\ UNCHANGED <<action, target, templateFirst, attached, dispatched, handled,
                 logged>>

\* The animation frame comes: the oldest waiting run resumes and evaluates
\* this.performAction().
FrameResume ==
  /\ stack = <<>>
  /\ frameQueue # <<>>
  /\ LET r == Head(frameQueue)
         pa == performAction(Action)
     IN
       /\ frameQueue' = Tail(frameQueue)
       /\ IF pa.kind = "raise"
            THEN /\ runs' = [runs EXCEPT ![r].st = "rejected",
                                         ![r].error = pa.message,
                                         ![r].actionRead = Action,
                                         ![r].inDocument = attached,
                                         ![r].callsBefore = Len(calls)]
                 /\ UNCHANGED handled
            ELSE LET e == RunHandler(pa.name, Target, templateFirst) IN
                 /\ handled' = Append(handled, pa.name)
                 /\ runs' = [runs EXCEPT
                       ![r].st = IF e = "" THEN "resolved" ELSE "rejected",
                       ![r].error = e,
                       ![r].handler = pa.name,
                       ![r].actionRead = Action,
                       ![r].inDocument = attached,
                       ![r].callsBefore = Len(calls)]
  /\ UNCHANGED frameVars
  /\ UNCHANGED <<action, target, templateFirst, attached, renderPromise, calls,
                 stack, dispatched, logged>>

\* connectedCallback with disconnect() moved from the finally block to the
\* end of the try block: a rejected render skips the removal.
ConnectedCallbackTailNoFinally(rejected, removeThrows) ==
  [logs    |-> IF rejected THEN 1 ELSE 0,
   removal |-> IF rejected THEN "none"
               ELSE IF removeThrows THEN "failed" ELSE "ok",
   outcome |-> "resolved"]

\* What connectedCallback does once the awaited render has settled:
\*   catch (error) { console.error(error) } finally { this.disconnect() }
\* with disconnect() being  try { this.remove() } catch {}.
ConnectedCallbackTail(rejected, removeThrows) ==
  [logs    |-> IF rejected THEN 1 ELSE 0,
   removal |-> IF removeThrows THEN "failed" ELSE "ok",
   outcome |-> "resolved"]

\* connectedCallback resumes after "await this.render()".  The resumption is
\* a microtask; other steps of the model may come before it, which covers the
\* synchronous code that follows a render settled by a canceled dispatch.
ConnectedContinue(c) ==
  /\ stack = <<>>
  /\ calls[c].kind = "attach"
  /\ calls[c].st = "waiting"
  /\ Settled(calls[c].run)
  /\ \E removeThrows \in BOOLEAN :
       LET t == ConnectedCallbackTail(runs[calls[c].run].st = "rejected",
                                      removeThrows)
       IN
         /\ attached' = IF t.removal = "ok" THEN FALSE ELSE attached
         /\ calls' = [calls EXCEPT ![c].st = "done", ![c].logs = t.logs,
                                   ![c].removal = t.removal,
                                   ![c].outcome = t.outcome,
                                   ![c].inDocument = attached']
         /\ logged' = logged + t.logs
  /\ UNCHANGED frameVars
  /\ UNCHANGED <<action, target, templateFirst, renderPromise, runs, stack,
                 frameQueue, dispatched, handled>>

ConnectedResume == \E c \in 1..Len(calls) : ConnectedContinue(c)

StreamInit ==
  /\ action \in ActionValues
  /\ target \in TargetValues
  /\ templateFirst \in BOOLEAN
  /\ attached = FALSE
  /\ renderPromise = 0
  /\ runs = <<>>
  /\ calls = <<>>
  /\ stack = <<>>
  /\ frameQueue = <<>>
  /\ dispatched = 0
  /\ handled = <<>>
  /\ logged = 0

\* ================================================================= FrameElement

\* The live document (the global "document") and one other document.
Documents == {"live", "other"}

\* Values the src attribute and the src property are given.
SrcValues == {Null, "", "/a", "/b"}

\* Values an edit of the markup gives a boolean attribute (Null removes it).
BoolAttrValues == {Null, "", "x"}

\* static get observedAttributes(): attributeChangedCallback is delivered
\* for these attributes only.
observedAttributes == {"src"}

\* get src(): getAttribute("src")
Src == src

\* A value of the host language: undefined, or a boolean.
Undefined == [type |-> "undefined"]
Bool(b) == [type |-> "boolean", value |-> b]
ToBoolean(v) == v.type = "boolean" /\ v.value

\* isPreview reading the root of the global document, not of the owner.
isPreviewOfLiveDocument ==
  IF hasRoot["live"] THEN Bool(preview["live"]) ELSE Undefined

\* get isPreview():
\*   this.ownerDocument?.documentElement?.hasAttribute("data-turbo-preview")
\* undefined when the owning document has no root element.
isPreview ==
  IF hasRoot[ownerDocument] THEN Bool(preview[ownerDocument]) ELSE Undefined

\* isActive without the preview test.
isActiveInLiveDocument == ownerDocument = "live"

\* get isActive()
isActive == ownerDocument = "live" /\ ~ToBoolean(isPreview)

\* get disabled(): hasAttribute("disabled")
Disabled == disabledAttr # Null

\* get autoscroll(): hasAttribute("autoscroll")
Autoscroll == autoscrollAttr # Null

\* The setters written with toggleAttribute(name, value): a present
\* attribute keeps the value it has.
SetBooleanKeepingValue(current, value) ==
  IF value THEN (IF current = Null THEN "" ELSE current) ELSE Null

\* The setters of disabled and autoscroll: the attribute's value after
\*   if (value) setAttribute(name, "") else removeAttribute(name)
SetBoolean(current, value) == IF value THEN "" ELSE Null

\* set src(value): the attribute's value after
\*   if (value) setAttribute("src", value) else removeAttribute("src")
SetSrcValue(current, value) == IF Truthy(value) THEN value ELSE Null

\* Whether the host delivers attributeChangedCallback for the src setter:
\* setAttribute always does, removeAttribute does when the attribute was there.
SrcSetterObserved(current, value) == Truthy(value) \/ current # Null

\* controller.visit(url): the controller's pending result.
ControllerVisit(url) == [url |-> url, settled |-> FALSE]

\* The condition written as this.src !== null && this.isActive.
ShouldVisitWhenPresent(s, active) == s # Null /\ active

\* The condition of attributeChangedCallback: this.src && this.isActive
ShouldVisit(s, active) == Truthy(s) /\ active

\* The property defined without "configurable": the first definition stays.
DefineLoadedOnce(current, value) == IF current = 0 THEN value ELSE current

\* Object.defineProperty(this, "loaded", { value, configurable: true }):
\* the own property is defined again on every visit.
DefineLoaded(current, value) == value

\* get loaded(): the own property when defined, else the accessor of the
\* class, which returns Promise.resolve(undefined).
Loaded ==
  IF loaded = 0 THEN [url |-> Null, settled |-> TRUE] ELSE visits[loaded]

\* attributeChangedCallback visiting the value src had before the change.
attributeChangedCallbackOldValue ==
  IF ShouldVisit(src', isActive)
    THEN /\ visits' = Append(visits, ControllerVisit(src))
         /\ loaded' = DefineLoaded(loaded, Len(visits) + 1)
    ELSE UNCHANGED <<visits, loaded>>

\* attributeChangedCallback(), run with the src attribute already changed.
attributeChangedCallback ==
  IF ShouldVisit(src', isActive)
    THEN /\ visits' = Append(visits, ControllerVisit(src'))
         /\ loaded' = DefineLoaded(loaded, Len(visits) + 1)
    ELSE UNCHANGED <<visits, loaded>>

\* The count of observed changes that carried a non-empty value while the
\* frame was in the live document and that document was no preview.
CountAccepted ==
  accepted' = accepted + (IF /\ src' \notin {Null, ""}
                             /\ ownerDocument = "live"
                             /\ ~preview["live"]
                            THEN 1 ELSE 0)

Op(op, arg, observed) == [op |-> op, arg |-> arg, observed |-> observed]

\* A script assigns the src property.
SetSrc(value) ==
  /\ ShouldVisit(SetSrcValue(src, value), isActive) => Len(visits) < MaxVisits
  /\ src' = SetSrcValue(src, value)
  /\ IF SrcSetterObserved(src, value)
       THEN attributeChangedCallback /\ CountAccepted
       ELSE UNCHANGED <<visits, loaded, accepted>>
  /\ lastOp' = Op("setSrc", value, SrcSetterObserved(src, value))
  /\ UNCHANGED <<disabledAttr, autoscrollAttr, ownerDocument, preview>>
  /\ UNCHANGED <<hasRoot, connected, notifications>>
  /\ UNCHANGED streamVars

\* The src attribute is set in the markup or by setAttribute, to any string.
EditSrc(value) ==
  /\ value # Null
  /\ ShouldVisit(value, isActive) => Len(visits) < MaxVisits
  /\ src' = value
  /\ attributeChangedCallback
  /\ CountAccepted
  /\ lastOp' = Op("editSrc", value, TRUE)
  /\ UNCHANGED <<disabledAttr, autoscrollAttr, ownerDocument, preview>>
  /\ UNCHANGED <<hasRoot, connected, notifications>>
  /\ UNCHANGED streamVars

\* A script assigns the disabled property.
SetDisabled(value) ==
  /\ disabledAttr' = SetBoolean(disabledAttr, value)
  /\ lastOp' = Op("setDisabled", value, "disabled" \in observedAttributes)
  /\ UNCHANGED <<src, autoscrollAttr, ownerDocument, preview, visits, loaded,
                 accepted>>
  /\ UNCHANGED <<hasRoot, connected, notifications>>
  /\ UNCHANGED streamVars

\* A script assigns the autoscroll property.
SetAutoscroll(value) ==
  /\ autoscrollAttr' = SetBoolean(autoscrollAttr, value)
  /\ lastOp' = Op("setAutoscroll", value, "autoscroll" \in observedAttributes)
  /\ UNCHANGED <<src, disabledAttr, ownerDocument, preview, visits, loaded,
                 accepted>>
  /\ UNCHANGED <<hasRoot, connected, notifications>>
  /\ UNCHANGED streamVars

\* The disabled or autoscroll attribute is edited from outside the element.
EditBoolean(name, value) ==
  /\ IF name = "disabled"
       THEN disabledAttr' = value /\ UNCHANGED autoscrollAttr
       ELSE autoscrollAttr' = value /\ UNCHANGED disabledAttr
  /\ lastOp' = Op("edit", name, name \in observedAttributes)
  /\ UNCHANGED <<src, ownerDocument, preview, visits, loaded, accepted>>
  /\ UNCHANGED <<hasRoot, connected, notifications>>
  /\ UNCHANGED streamVars

\* The preview marker is put on, or taken off, the root of a document.
SetPreview(d, value) ==
  /\ hasRoot[d]
  /\ preview[d] # value
  /\ preview' = [preview EXCEPT ![d] = value]
  /\ lastOp' = Op("setPreview", d, FALSE)
  /\ UNCHANGED <<src, disabledAttr, autoscrollAttr, ownerDocument, visits,
                 loaded, accepted>>
  /\ UNCHANGED <<hasRoot, connected, notifications>>
  /\ UNCHANGED streamVars

\* The root element of a document is taken out (the marker goes with it), or
\* a root element is put into a document that has none, with or without the
\* marker.
SetRoot(d, present, marked) ==
  /\ hasRoot[d] # present
  /\ marked => present
  /\ hasRoot' = [hasRoot EXCEPT ![d] = present]
  /\ preview' = [preview EXCEPT ![d] = marked]
  /\ lastOp' = Op("setRoot", d, FALSE)
  /\ UNCHANGED <<connected, notifications>>
  /\ UNCHANGED <<src, disabledAttr, autoscrollAttr, ownerDocument, visits,
                 loaded, accepted>>
  /\ UNCHANGED streamVars

\* The frame is moved to another document.
Adopt(d) ==
  /\ ownerDocument # d
  /\ ownerDocument' = d
  /\ lastOp' = Op("adopt", d, FALSE)
  /\ UNCHANGED <<src, disabledAttr, autoscrollAttr, preview, visits, loaded,
                 accepted>>
  /\ UNCHANGED <<hasRoot, connected, notifications>>
  /\ UNCHANGED streamVars

\* The controller settles the result of one of its visits.
VisitSettles(i) ==
  /\ ~visits[i].settled
  /\ visits' = [visits EXCEPT ![i].settled = TRUE]
  /\ lastOp' = Op("settle", i, FALSE)
  /\ UNCHANGED <<src, disabledAttr, autoscrollAttr, ownerDocument, preview,
                 loaded, accepted>>
  /\ UNCHANGED <<hasRoot, connected, notifications>>
  /\ UNCHANGED streamVars

\* ---- the frame forwards lifecycle events to its controller
Forms == {"form1", "form2"}
Submitters == {Null, "button"}

Notification(method, element, submitter) ==
  [method |-> method, element |-> element, submitter |-> submitter]

\* connectedCallback forwarding only while the frame is active.
connectedCallbackWhenActive(log) ==
  IF isActive THEN Append(log, Notification("connect", Null, Null)) ELSE log

\* connectedCallback() { this.controller.connect() }
connectedCallback(log) == Append(log, Notification("connect", Null, Null))

\* disconnectedCallback() { this.controller.disconnect() }
disconnectedCallback(log) == Append(log, Notification("disconnect", Null, Null))

\* formSubmissionIntercepted forwarding the form without its submitter.
formSubmissionInterceptedNoSubmitter(log, element, submitter) ==
  Append(log, Notification("formSubmissionIntercepted", element, Null))

\* formSubmissionIntercepted(element, submitter) {
\*   this.controller.formSubmissionIntercepted(element, submitter) }
formSubmissionIntercepted(log, element, submitter) ==
  Append(log, Notification("formSubmissionIntercepted", element, submitter))

\* The platform attaches the frame to its document.
FrameConnected ==
  /\ ~connected
  /\ Len(notifications) < MaxNotifications
  /\ connected' = TRUE
  /\ notifications' = connectedCallback(notifications)
  /\ lastOp' = Op("connect", Null, FALSE)
  /\ UNCHANGED <<src, disabledAttr, autoscrollAttr, ownerDocument, preview,
                 hasRoot, visits, loaded, accepted>>
  /\ UNCHANGED streamVars

\* The platform detaches the frame from its document.
FrameDisconnected ==
  /\ connected
  /\ Len(notifications) < MaxNotifications
  /\ connected' = FALSE
  /\ notifications' = disconnectedCallback(notifications)
  /\ lastOp' = Op("disconnect", Null, FALSE)
  /\ UNCHANGED <<src, disabledAttr, autoscrollAttr, ownerDocument, preview,
                 hasRoot, visits, loaded, accepted>>
  /\ UNCHANGED streamVars

\* A form-submission interceptor reports a submission to the frame.
FormSubmission(element, submitter) ==
  /\ Len(notifications) < MaxNotifications
  /\ notifications' = formSubmissionIntercepted(notifications, element, submitter)
  /\ lastOp' = Op("formSubmissionIntercepted", <<element, submitter>>, FALSE)
  /\ UNCHANGED <<src, disabledAttr, autoscrollAttr, ownerDocument, preview,
                 hasRoot, visits, loaded, connected, accepted>>
  /\ UNCHANGED streamVars

FrameInit ==
  /\ src = Null
  /\ disabledAttr = Null
  /\ autoscrollAttr = Null
  /\ ownerDocument = "live"
  /\ preview = [d \in Documents |-> FALSE]
  /\ hasRoot = [d \in Documents |-> TRUE]
  /\ visits = <<>>
  /\ loaded = 0
  /\ connected = FALSE
  /\ notifications = <<>>
  /\ accepted = 0
  /\ lastOp = Op("none", Null, FALSE)

Init == StreamInit /\ FrameInit

StreamNext ==
  \/ Attach
  \/ Detach
  \/ CallRender
  \/ ListenerRender
  \/ ListenerCancel
  \/ DispatchReturn
  \/ FrameResume
  \/ ConnectedResume

Next == StreamNext

Spec == Init /\ [][Next]_vars

\* An element that is rendered by attachment only: the browser, another
\* party and the listeners of its before-render event attach, move and
\* detach it, and nothing calls render() directly.
AttachNext ==
  \/ Attach
  \/ Detach
  \/ ListenerAttach
  \/ ListenerCancel
  \/ DispatchReturn
  \/ FrameResume
  \/ ConnectedResume

AttachSpec == Init /\ [][AttachNext]_vars

\* An element, complete in its target and template, whose action attribute
\* is changed while it is attached and rendered.
ActionAttribute == \E value \in ActionValues : SetAction(value)

ActionNext ==
  \/ Attach
  \/ ActionAttribute
  \/ ListenerCancel
  \/ DispatchReturn
  \/ FrameResume
  \/ ConnectedResume

ActionInit == Init /\ target = "dom_id" /\ templateFirst

ActionSpec == ActionInit /\ [][ActionNext]_vars

\* An element attached and detached by the browser and another party, with
\* listeners that cancel and that call render(), under the scheduling the
\* platform gives: a dispatch in progress returns (listeners run to
\* completion), the animation frame a render waits for comes and its handler
\* returns or throws, and the microtask that resumes connectedCallback after
\* "await this.render()" runs.
LiveNext ==
  \/ Attach
  \/ Detach
  \/ ListenerRender
  \/ ListenerCancel
  \/ DispatchReturn
  \/ FrameResume
  \/ ConnectedResume

LiveSpec ==
  /\ Init
  /\ [][LiveNext]_vars
  /\ WF_vars(DispatchReturn)
  /\ WF_vars(FrameResume)
  /\ WF_vars(ConnectedResume)

SrcProperty == \E value \in SrcValues : SetSrc(value)
SrcAttribute == \E value \in SrcValues : EditSrc(value)
DisabledProperty == \E value \in BOOLEAN : SetDisabled(value)
AutoscrollProperty == \E value \in BOOLEAN : SetAutoscroll(value)
BooleanAttribute ==
  \E name \in {"disabled", "autoscroll"}, value \in BoolAttrValues :
    EditBoolean(name, value)
PreviewMarker == \E d \in Documents, value \in BOOLEAN : SetPreview(d, value)
AdoptNode == \E d \in Documents : Adopt(d)
RootElement ==
  \E d \in Documents, present \in BOOLEAN, marked \in BOOLEAN :
    SetRoot(d, present, marked)
VisitSettled == \E i \in 1..Len(visits) : VisitSettles(i)

FrameNext ==
  \/ SrcProperty
  \/ SrcAttribute
  \/ DisabledProperty
  \/ AutoscrollProperty
  \/ BooleanAttribute
  \/ PreviewMarker
  \/ AdoptNode
  \/ VisitSettled

\* The frame element alone: the stream element is one given element that is
\* never attached nor rendered.
FrameOnlyInit ==
  /\ Init
  /\ action = "append"
  /\ target = "dom_id"
  /\ templateFirst

FrameSpec == FrameOnlyInit /\ [][FrameNext]_vars

\* The frame element and its documents: src changes, the preview marker,
\* moves between documents, and documents that lose or get a root element.
DocumentNext ==
  \/ SrcProperty
  \/ PreviewMarker
  \/ AdoptNode
  \/ RootElement

DocumentSpec == FrameOnlyInit /\ [][DocumentNext]_vars

\* The frame element and the lifecycle events it forwards to its controller.
FormSubmissionIntercepted ==
  \E element \in Forms, submitter \in Submitters :
    FormSubmission(element, submitter)

LifecycleNext ==
  \/ FrameConnected
  \/ FrameDisconnected
  \/ FormSubmissionIntercepted
  \/ SrcProperty
  \/ DisabledProperty
  \/ PreviewMarker
  \/ AdoptNode

LifecycleSpec == FrameOnlyInit /\ [][LifecycleNext]_vars

\* ======================================================= StreamElement claims

Runs == 1..Len(runs)
Calls == 1..Len(calls)
\* Runs that went past dispatch into nextAnimationFrame().
Yielded == {r \in Runs : runs[r].st # "dispatching" /\ ~runs[r].canceled}
\* Runs that evaluated this.performAction().
Performed == {r \in Runs : runs[r].actionRead # "<unread>"}
\* The outcome of a settled run.
Outcome(r) == <<runs[r].st, runs[r].error>>

\* C1: whatever calls of render() are made on an instance, the before-render
\* event is dispatched exactly once, a handler is invoked at most once, and
\* every call settles as the first call does.
C1_RenderIdempotent ==
  Len(calls) > 0 =>
    /\ dispatched = 1
    /\ Len(handled) <= 1
    /\ \A c \in Calls :
         (calls[c].run # 0 /\ calls[1].run # 0
            /\ Settled(calls[c].run) /\ Settled(calls[1].run))
           => Outcome(calls[c].run) = Outcome(calls[1].run)

\* C2: once a listener has canceled the before-render event of the instance,
\* no handler is ever invoked on it, the action attribute is never read, no
\* render rejects, and an attachment still ends with the removal performed.
C2_CancelSkipsAction ==
  (\E r \in Runs : runs[r].canceled) =>
    /\ handled = <<>>
    /\ Performed = {}
    /\ \A r \in Runs : runs[r].st # "rejected"
    /\ \A c \in Calls : calls[c].st = "done" => calls[c].removal # "none"

\* C3: every finished connectedCallback waited for its render to settle,
\* resolved, logged the render's error exactly once if there was one and
\* nothing otherwise, and then called remove(): the element is out of the
\* document unless remove() itself threw, which is swallowed.
C3_AttachAlwaysCleansUp ==
  /\ \A c \in Calls :
       (calls[c].kind = "attach" /\ calls[c].st = "done") =>
         /\ Settled(calls[c].run)
         /\ calls[c].outcome = "resolved"
         /\ calls[c].logs = (IF runs[calls[c].run].st = "rejected" THEN 1 ELSE 0)
         /\ calls[c].removal \in {"ok", "failed"}
         /\ calls[c].removal = "ok" => ~calls[c].inDocument
  /\ logged = Cardinality({c \in Calls : /\ calls[c].kind = "attach"
                                         /\ calls[c].st = "done"
                                         /\ runs[calls[c].run].st = "rejected"})

\* C3 witness: an attachment whose render rejected for an unknown action has
\* finished, resolved, with one error logged and a remove() that threw; the
\* element, attached again, went through the same again and is now removed.
C3_Witness ==
  \E c, d \in Calls :
    /\ c < d
    /\ calls[c].kind = "attach" /\ calls[d].kind = "attach"
    /\ calls[c].st = "done" /\ calls[d].st = "done"
    /\ runs[calls[c].run].error = "unknown action"
    /\ calls[c].removal = "failed" /\ calls[c].inDocument
    /\ calls[c].logs = 1 /\ calls[d].logs = 1
    /\ calls[d].removal = "ok" /\ ~calls[d].inDocument
    /\ logged = 2

\* C4: a render that was not canceled classifies the action attribute it
\* reads: absent gives "action attribute is missing"; present, with any value
\* (the empty string too), but no key of the registry gives "unknown action";
\* a key of the registry gives that handler and neither error.
C4_ActionClassification ==
  \A r \in Performed :
    LET a == runs[r].actionRead IN
      /\ a = Null =>
           runs[r].st = "rejected" /\ runs[r].error = "action attribute is missing"
      /\ (a # Null /\ a \notin StreamActions) =>
           runs[r].st = "rejected" /\ runs[r].error = "unknown action"
      /\ a \in StreamActions =>
           /\ runs[r].handler = a
           /\ runs[r].error \notin {"unknown action", "action attribute is missing"}

\* C5: for an instance rendered by attachment the before-render dispatch, the
\* yield, the action and the removal come in this order, and none of dispatch,
\* yield and action happens twice.
C5_PipelineOrder ==
  /\ dispatched <= 1
  /\ Cardinality(Yielded) <= 1
  /\ Cardinality(Performed) <= 1
  /\ Performed \subseteq Yielded
  /\ \A r \in Runs : runs[r].handler # "" => r \in Performed
  /\ \A c \in Calls : calls[c].st = "done" => Settled(calls[c].run)

\* C13: while the listeners of the before-render event run, the render in
\* flight is already recorded in renderPromise, so a render() call made by a
\* listener starts no dispatch inside the dispatch in progress, and no second
\* run reaches the action.
C13_ReentrantRenderObservesInFlight ==
  /\ stack # <<>> => renderPromise = stack[1].run
  /\ Len(stack) <= 1
  /\ \A c \in Calls : calls[c].run # 0 => calls[c].run = 1
  /\ Cardinality(Performed) <= 1

\* C14: an instance that is only ever attached, however often and whenever
\* (again after its render settled, or while its render is in flight),
\* dispatches the before-render event once and reads and runs its action at
\* most once; every attachment that finished called remove(); and once
\* renderPromise holds a settled render it holds a settled render for good.
OnlyAttached == \A c \in Calls : calls[c].kind = "attach"

C14_NotReusable ==
  OnlyAttached =>
    /\ dispatched <= 1
    /\ Cardinality(Performed) <= 1
    /\ Len(handled) <= 1
    /\ \A c \in Calls : calls[c].st = "done" => calls[c].removal # "none"
    /\ (\E r \in Runs : Settled(r)) =>
         (stack = <<>> => (renderPromise # 0 /\ Settled(renderPromise)))

\* C15: only a cancel stops a pipeline.  A run whose before-render event
\* was canceled never reads the action and invokes no handler.  A run whose
\* event was not canceled waits for its frame exactly once and then reads the
\* action, whether or not the element is still in a document, and is settled
\* by that; it is never executed again; and each run that invoked a handler
\* accounts for exactly one invocation.
Waiting(r) == Cardinality({i \in 1..Len(frameQueue) : frameQueue[i] = r})

C15_OnlyCancelStops ==
  /\ [](\A r \in Runs :
          /\ runs[r].canceled => (r \notin Performed /\ runs[r].handler = "")
          /\ (runs[r].st # "dispatching" /\ ~runs[r].canceled) =>
               /\ Waiting(r) = (IF runs[r].st = "yielding" THEN 1 ELSE 0)
               /\ runs[r].st # "yielding" => (r \in Performed /\ Settled(r))
          /\ r \in Performed => (Settled(r) /\ ~runs[r].canceled)
          /\ runs[r].handler # "" => r \in Performed)
  /\ [](Len(handled) = Cardinality({r \in Runs : runs[r].handler # ""}))
  /\ [][\A r \in Runs : r \in Performed => runs'[r] = runs[r]]_vars

\* C15 witness: the element was attached, taken out of its document during
\* the yield, attached again and taken out again; the frame then came and the
\* handler was invoked on the element outside any document.
C15_Witness ==
  /\ Len(runs) = 1
  /\ runs[1].handler = "append"
  /\ ~runs[1].inDocument
  /\ runs[1].callsBefore = 2
  /\ \A c \in Calls : calls[c].kind = "attach" /\ calls[c].run = 1
  /\ handled = <<"append">>

\* C16: target and template errors come from the handler only.  A run that
\* reads a registered action invokes that handler whatever the target and the
\* first child are; "target attribute is missing" and "first child element
\* must be a <template> element" are found on runs that invoked a handler
\* only; a handler rejects for the target only when the target attribute is
\* absent, and a target attribute that is present but names no element gives
\* no error; a run rejected by its handler is logged and followed by remove()
\* by every attachment that finished.
HandlerErrors == {"target attribute is missing",
                  "first child element must be a <template> element"}

C16_TargetTemplateErrorsInHandler ==
  \A r \in Runs :
    /\ (r \in Performed /\ runs[r].actionRead \in StreamActions) =>
         runs[r].handler = runs[r].actionRead
    /\ runs[r].error \in HandlerErrors =>
         (runs[r].handler # "" /\ r \in Yielded /\ runs[r].st = "rejected")
    /\ runs[r].handler # "" =>
         /\ runs[r].error = "target attribute is missing" <=> Target = Null
         /\ (Target # Null /\ targetElement(Target).kind # "element") =>
              (runs[r].st = "resolved" /\ runs[r].error = "")
         /\ runs[r].error = "first child element must be a <template> element"
              => ~templateFirst
    /\ \A c \in Calls :
         (calls[c].st = "done" /\ calls[c].run = r /\ runs[r].error \in HandlerErrors)
            => (calls[c].logs = 1 /\ calls[c].removal # "none")

\* C17 as stated: every attachment is followed, eventually, by the render
\* settled and the element out of its document.
AttachCalls == {c \in Calls : calls[c].kind = "attach"}

C17_EventuallyRemoved ==
  <>[](/\ \A c \in AttachCalls : calls[c].st = "done" /\ Settled(calls[c].run)
       /\ AttachCalls # {} => ~attached)

\* C17, amended: every attachment is followed, eventually, by the render
\* settled and remove() called, which takes the element out of its document
\* unless remove() throws; every render started settles; a run suspends at
\* most once, in the yield, and from there it settles; a run whose dispatch
\* was canceled settles at the return of the dispatch and never suspends; a
\* settled run never changes.
RemovalDone(c) ==
  /\ calls[c].st = "done"
  /\ Settled(calls[c].run)
  /\ calls[c].removal # "none"
  /\ calls[c].removal = "ok" => ~calls[c].inDocument

C17_EventuallySettledRemoveCalled ==
  /\ <>[](/\ \A c \in AttachCalls : RemovalDone(c)
          /\ \A r \in Runs : Settled(r))
  /\ [][\A r \in Runs :
          /\ runs[r].st = "dispatching" =>
               /\ runs'[r].st \in {"dispatching", "yielding", "resolved"}
               /\ runs'[r].st = "yielding" => ~runs[r].canceled
               /\ runs'[r].st = "resolved" => runs[r].canceled
          /\ runs[r].st = "yielding" =>
               runs'[r].st \in {"yielding", "resolved", "rejected"}
          /\ Settled(r) => runs'[r] = runs[r]]_vars

\* C17 witness: an attachment whose handler threw in the frame after the
\* dispatch has finished: the render is rejected, logged, and the element is
\* out of its document.
C17_Witness ==
  /\ Len(calls) >= 1
  /\ calls[1].kind = "attach"
  /\ RemovalDone(1)
  /\ runs[calls[1].run].handler = "append"
  /\ runs[calls[1].run].error = "first child element must be a <template> element"
  /\ calls[1].removal = "ok"
  /\ calls[1].logs = 1
  /\ ~attached

\* C18: the action attribute is read once per run, when the run resumes after
\* its yield: not while the run dispatches or waits; the value read is the
\* value the attribute has at that step, and it alone decides the handler
\* invoked or the error raised; a settled run is not changed by a later
\* change of the attribute.
C18_ActionReadAtExecution ==
  /\ [](\A r \in Runs :
          /\ runs[r].st \in {"dispatching", "yielding"} => r \notin Performed
          /\ r \in Performed =>
               LET pa == performAction(runs[r].actionRead) IN
                 IF pa.kind = "raise"
                   THEN /\ runs[r].st = "rejected"
                        /\ runs[r].error = pa.message
                        /\ runs[r].handler = ""
                   ELSE runs[r].handler = pa.name)
  /\ [][\A r \in Runs :
          /\ (r \notin Performed /\ runs'[r].actionRead # "<unread>") =>
               /\ runs[r].st = "yielding"
               /\ runs'[r].actionRead = action
               /\ action' = action
          /\ Settled(r) => runs'[r] = runs[r]]_vars

\* C18 witness: the element dispatched with action "append", the attribute
\* was "remove" when the frame came and the remove handler ran; the attribute
\* was then changed to an unknown action and the render stays resolved.
C18_Witness ==
  /\ Len(runs) = 1
  /\ runs[1].actionAtDispatch = "append"
  /\ runs[1].actionRead = "remove"
  /\ runs[1].handler = "remove"
  /\ runs[1].st = "resolved"
  /\ handled = <<"remove">>
  /\ action = "bogus"

\* ======================================================== FrameElement claims

SrcOps == {"setSrc", "editSrc"}
\* The frame is in the live document and that document is no preview.
LiveAndNoPreview == ownerDocument = "live" /\ ~preview["live"]
NonEmpty(s) == s \notin {Null, ""}
Resolved == [url |-> Null, settled |-> TRUE]

\* C6: controller.visit is called only by an observed src change made while
\* the frame is active; a change made while it is inactive is not replayed
\* when the frame becomes active (marker removed, frame moved), and the next
\* observed non-empty change then makes exactly one call.
C6_InactiveChangeNeverVisits ==
  [][ /\ Len(visits') # Len(visits) =>
           /\ lastOp'.op \in SrcOps
           /\ lastOp'.observed
           /\ LiveAndNoPreview
           /\ Len(visits') = Len(visits) + 1
      /\ lastOp'.op \in {"setPreview", "adopt", "setRoot"}
           => UNCHANGED <<visits, loaded>>
      /\ (lastOp'.op \in SrcOps /\ lastOp'.observed /\ NonEmpty(src')
            /\ LiveAndNoPreview)
           => Len(visits') = Len(visits) + 1
    ]_vars

\* C6 witness: src was given a value while the frame was inactive, the frame
\* has just become active, and no visit has been made.
C6_Witness ==
  /\ lastOp.op \in {"setPreview", "adopt", "setRoot"}
  /\ LiveAndNoPreview
  /\ NonEmpty(src)
  /\ visits = <<>>
  /\ loaded = 0

\* C7: the visits are as many as the observed changes that were non-empty
\* and active, and the change just observed, if it was one of them, made
\* the last visit, with the value src has, whose result is loaded.
C7_AcceptedChangeVisitsOnce ==
  /\ Len(visits) = accepted
  /\ (lastOp.op \in SrcOps /\ lastOp.observed /\ NonEmpty(src)
        /\ LiveAndNoPreview)
       => /\ visits # <<>>
          /\ visits[Len(visits)].url = src
          /\ loaded = Len(visits)
          /\ Loaded = visits[Len(visits)]

\* C7 witness: a second accepted change has made the second visit.
C7_Witness ==
  /\ lastOp.op = "setSrc"
  /\ lastOp.observed
  /\ src = "/b"
  /\ LiveAndNoPreview
  /\ Len(visits) = 2
  /\ visits[1].url = "/a"
  /\ visits[2].url = "/b"
  /\ loaded = 2

\* C8: successive accepted changes call the controller in the order they are
\* delivered, with no wait for earlier results, and loaded is the result of
\* the last call whichever result settles, first or at all.
C8_LastWriteWins ==
  /\ [](visits # <<>> => loaded = Len(visits))
  /\ [](LiveAndNoPreview /\ Len(visits) < MaxVisits => ENABLED EditSrc("/b"))
  /\ [][ /\ Len(visits') > Len(visits) =>
              /\ SubSeq(visits', 1, Len(visits)) = visits
              /\ loaded' = Len(visits')
         /\ lastOp'.op = "settle" =>
              /\ loaded' = loaded
              /\ Len(visits') = Len(visits)
              /\ \A i \in 1..Len(visits) : visits'[i].url = visits[i].url
       ]_vars

\* C8 witness: of two visits the second has settled and the first has not,
\* and loaded is the second.
C8_Witness ==
  /\ Len(visits) = 2
  /\ ~visits[1].settled
  /\ visits[2].settled
  /\ loaded = 2
  /\ Loaded = visits[2]

\* C9: a src change that is empty or absent, or made while the frame is
\* inactive, calls nothing and leaves loaded as it is: the result of the last
\* accepted change, or the resolved empty value when there was none; the src
\* setter given null or "" removes the attribute.
C9_IgnoredChangeKeepsLoaded ==
  /\ [](accepted = 0 => Loaded = Resolved)
  /\ [][ /\ (lastOp'.op \in SrcOps /\ ~(NonEmpty(src') /\ LiveAndNoPreview))
              => UNCHANGED <<visits, loaded>>
         /\ (lastOp'.op = "setSrc" /\ ~NonEmpty(lastOp'.arg)) => src' = Null
       ]_vars

\* C9 witness: after one accepted change the src setter was given "" while
\* the frame is active; the removal was observed and loaded is still the
\* first visit.
C9_Witness ==
  /\ lastOp = Op("setSrc", "", TRUE)
  /\ LiveAndNoPreview
  /\ src = Null
  /\ Len(visits) = 1
  /\ loaded = 1

\* C10: disabled and autoscroll read true exactly when their attribute is
\* present; setting true leaves the attribute present with the value "",
\* setting false leaves it absent, setting twice is setting once, and a
\* setter changes neither the other attribute nor src and calls nothing.
C10_BooleanProperties ==
  /\ [](/\ Disabled <=> disabledAttr # Null
        /\ Autoscroll <=> autoscrollAttr # Null)
  /\ [](lastOp.op = "setDisabled" =>
          /\ disabledAttr = (IF lastOp.arg THEN "" ELSE Null)
          /\ Disabled = lastOp.arg)
  /\ [](lastOp.op = "setAutoscroll" =>
          /\ autoscrollAttr = (IF lastOp.arg THEN "" ELSE Null)
          /\ Autoscroll = lastOp.arg)
  /\ [](\A b \in BOOLEAN :
          /\ SetBoolean(SetBoolean(disabledAttr, b), b) = SetBoolean(disabledAttr, b)
          /\ SetBoolean(SetBoolean(autoscrollAttr, b), b)
               = SetBoolean(autoscrollAttr, b))
  /\ [][ /\ lastOp'.op = "setDisabled" =>
              UNCHANGED <<src, autoscrollAttr, visits, loaded>>
         /\ lastOp'.op = "setAutoscroll" =>
              UNCHANGED <<src, disabledAttr, visits, loaded>>
         /\ lastOp'.op \in {"setDisabled", "setAutoscroll"} => ~lastOp'.observed
       ]_vars

\* C10 witness: disabled was set to true over an attribute edited to "x",
\* with autoscroll edited to "x" and a visit made before.
C10_Witness ==
  /\ lastOp = Op("setDisabled", TRUE, FALSE)
  /\ disabledAttr = ""
  /\ autoscrollAttr = "x"
  /\ src = "/a"
  /\ Len(visits) = 1

\* C11: in every state isActive is: the owning document is the live document
\* and its root carries no preview marker; isPreview is true exactly when the
\* root of the owning document carries the marker (it is undefined, not
\* false, when the document has no root).  Nothing is cached: the values
\* follow every move of the frame and every change of a marker or root.
C11_DerivedFlags ==
  /\ isActive = (/\ ownerDocument = "live"
                 /\ ~(hasRoot[ownerDocument] /\ preview[ownerDocument]))
  /\ (isPreview = Bool(TRUE)) = (hasRoot[ownerDocument] /\ preview[ownerDocument])
  /\ isPreview = Undefined <=> ~hasRoot[ownerDocument]

\* C11 witness: the frame has just been moved from a preview document into
\* the live document, and reads active and no preview at once.
C11_Witness ==
  /\ lastOp.op = "adopt"
  /\ ownerDocument = "live"
  /\ preview["other"]
  /\ ~preview["live"]
  /\ isActive
  /\ isPreview = Bool(FALSE)

\* C12: the frame is a pass-through for lifecycle events.  Every attachment
\* adds exactly one connect to the controller's calls, every detachment
\* exactly one disconnect, every intercepted submission exactly one
\* formSubmissionIntercepted with the same form and submitter; the earlier
\* calls stay in place, whatever the state of the frame; and none of these
\* steps changes src, the boolean attributes, the visits or the loaded result.
LifecycleOps == {"connect", "disconnect", "formSubmissionIntercepted"}

Forwarded(op, arg) ==
  IF op = "formSubmissionIntercepted"
  THEN Notification(op, arg[1], arg[2])
  ELSE Notification(op, Null, Null)

C12_PassThrough ==
  [][ /\ lastOp'.op \in LifecycleOps =>
           /\ notifications' =
                notifications \o <<Forwarded(lastOp'.op, lastOp'.arg)>>
           /\ UNCHANGED <<src, disabledAttr, autoscrollAttr, visits, loaded>>
      /\ lastOp'.op \notin LifecycleOps => UNCHANGED notifications
    ]_vars

\* C12 witness: a frame that is disabled, without src, and owned by a
\* preview document other than the live one has forwarded its attachment and
\* then a submission with its submitter.
C12_Witness ==
  /\ lastOp = Op("formSubmissionIntercepted", <<"form2", "button">>, FALSE)
  /\ notifications = << Notification("connect", Null, Null),
                        Notification("formSubmissionIntercepted", "form2", "button") >>
  /\ ~isActive
  /\ isPreview = Bool(TRUE)
  /\ ownerDocument = "other"
  /\ Disabled
  /\ src = Null

====
